---- MODULE Spec2Model ----
(***************************************************************************)
(* Model of app.py (eInvoice XML -> JSON viewer): the namespace extractor, *)
(* the field locator, the generic tree projector, the common-fields mapper *)
(* and the parse / map / project pipeline of the script.                   *)
(*                                                                         *)
(* Representation.  A Python str is a sequence of lexemes; a lexeme is a   *)
(* TLA+ string standing for a maximal run of characters of one class       *)
(* (a name, a run of blanks, one punctuation mark, a URI).  The string     *)
(* operations of the code (strip, split, the regular expressions, the path *)
(* tokenizer) are computed lexeme by lexeme.  Every Python value that can  *)
(* be None, a str, a list or a dict is a record [kind, s, items]; a raised *)
(* SyntaxError is the value of kind "SyntaxError".                         *)
(***************************************************************************)
EXTENDS Integers, Sequences, FiniteSets, TLC

VARIABLES
    pc,             \* position of the script (or of the function call under check)
    uploaded,       \* the uploaded file: raw text, well-formedness, tree it parses to
    root,           \* ET.fromstring(xml_bytes)
    ns,             \* extract_namespaces(xml_bytes)
    mapped_common,  \* map_invoice_common(root, ns), later with xmlAsJsonFallback
    shown,          \* what the page has rendered: sequence of widget names
    args,           \* arguments of the function call under check
    ret             \* its return value

vars == <<pc, uploaded, root, ns, mapped_common, shown, args, ret>>

----------------------------------------------------------------------------
(* Bounds *)

MaxChildren == 3    \* children of the root of an uploaded invoice
MaxPaths == 3       \* candidate paths handed to find_first_text
MaxKids == 3        \* children of an element handed to xml_to_dict
MaxChunks == 3      \* attribute chunks in the text handed to extract_namespaces

----------------------------------------------------------------------------
(* Python values *)

V(kind, s, items) == [kind |-> kind, s |-> s, items |-> items]
None == V("None", <<>>, <<>>)
Str(s) == V("str", s, <<>>)
List(vs) == V("list", <<>>, [i \in 1..Len(vs) |-> [k |-> <<>>, v |-> vs[i]]])
Dict(items) == V("dict", <<>>, items)
SyntaxError(prefix) == V("SyntaxError", prefix, <<>>)

Raised(v) == v.kind = "SyntaxError"

\* truth value of a None / str / list / dict
Truthy(v) ==
    CASE v.kind = "str" -> v.s # <<>>
      [] v.kind \in {"list", "dict"} -> v.items # <<>>
      [] OTHER -> FALSE

\* a or b, with a already evaluated and b evaluated only when needed
Or(a, b) == IF Raised(a) \/ Truthy(a) THEN a ELSE b

Elems(v) == [i \in 1..Len(v.items) |-> v.items[i].v]

\* dict operations on the ordered item sequence
HasKey(items, k) == \E i \in 1..Len(items) : items[i].k = k
Get(items, k) == items[CHOOSE i \in 1..Len(items) : items[i].k = k].v
DictSet(items, k, v) ==
    IF HasKey(items, k)
    THEN [i \in 1..Len(items) |-> IF items[i].k = k THEN [k |-> k, v |-> v] ELSE items[i]]
    ELSE Append(items, [k |-> k, v |-> v])

----------------------------------------------------------------------------
(* str.strip() *)

IsSpace(c) == c \in {" ", "\n", "\t"}

RECURSIVE lstrip(_)
lstrip(s) == IF s # <<>> /\ IsSpace(Head(s)) THEN lstrip(Tail(s)) ELSE s

RECURSIVE rstrip(_)
rstrip(s) == IF s # <<>> /\ IsSpace(s[Len(s)]) THEN rstrip(SubSeq(s, 1, Len(s) - 1)) ELSE s

strip(s) == rstrip(lstrip(s))

----------------------------------------------------------------------------
(* Elements: tag in Clark notation ({uri}local), attrib an ordered dict of *)
(* str, text (<<>> when the parser gives None), children in document      *)
(* order.                                                                  *)

Element(tag, attrib, text, children) ==
    [tag |-> tag, attrib |-> attrib, text |-> text, children |-> children]

QName(uri, local) == IF uri = <<>> THEN <<local>> ELSE <<"{">> \o uri \o <<"}", local>>

Attr(k, v) == [k |-> <<k>>, v |-> Str(<<v>>)]

NoElement == Element(<<>>, <<>>, <<>>, <<>>)

\* Element.iter() without the element itself, document order
RECURSIVE Descendants(_)
RECURSIVE DescendantsOfAll(_)
Descendants(e) == DescendantsOfAll(e.children)
DescendantsOfAll(cs) ==
    IF cs = <<>> THEN <<>>
    ELSE <<Head(cs)>> \o Descendants(Head(cs)) \o DescendantsOfAll(Tail(cs))

RECURSIVE WithTag(_, _)
WithTag(s, tag) ==
    IF s = <<>> THEN <<>>
    ELSE (IF Head(s).tag = tag THEN <<Head(s)>> ELSE <<>>) \o WithTag(Tail(s), tag)

----------------------------------------------------------------------------
(* Element.find / Element.findall with a namespace dict (ElementPath).     *)
(* Every path of the program is "." followed by descendant steps           *)
(* "//name" or "//prefix:name".  The selector is compiled from the whole   *)
(* path before it is run: a prefix that is not a key of the namespace dict *)
(* raises SyntaxError("prefix ... not found in prefix map").               *)

RECURSIVE Compile(_, _)
Compile(p, nsmap) ==
    IF p = <<>> THEN [err |-> None, tags |-> <<>>]
    ELSE LET qualified == Len(p) >= 4 /\ p[3] = ":"
             prefix == <<p[2]>>
             rest == IF qualified THEN SubSeq(p, 5, Len(p)) ELSE SubSeq(p, 3, Len(p))
         IN  IF qualified /\ ~HasKey(nsmap, prefix)
             THEN [err |-> SyntaxError(prefix), tags |-> <<>>]
             ELSE LET tag == IF qualified
                             THEN <<"{">> \o Get(nsmap, prefix).s \o <<"}", p[4]>>
                             ELSE <<p[2]>>
                      r == Compile(rest, nsmap)
                  IN  [err |-> r.err, tags |-> <<tag>> \o r.tags]

RECURSIVE DescendantStep(_, _)
DescendantStep(result, tag) ==
    IF result = <<>> THEN <<>>
    ELSE WithTag(Descendants(Head(result)), tag) \o DescendantStep(Tail(result), tag)

RECURSIVE Select(_, _)
Select(result, tags) ==
    IF tags = <<>> THEN result ELSE Select(DescendantStep(result, Head(tags)), Tail(tags))

Found(kind, e, err) == [kind |-> kind, e |-> e, err |-> err]

\* root.findall(path, ns): the matches, or the SyntaxError
findall(r, path, nsmap) ==
    LET c == Compile(Tail(path), nsmap)
    IN  IF Raised(c.err) THEN [err |-> c.err, elems |-> <<>>]
        ELSE [err |-> None, elems |-> Select(<<r>>, c.tags)]

\* root.find(path, ns): the first match, None, or the SyntaxError
find(r, path, nsmap) ==
    LET m == findall(r, path, nsmap)
    IN  IF Raised(m.err) THEN Found("SyntaxError", NoElement, m.err)
        ELSE IF m.elems = <<>> THEN Found("None", NoElement, None)
        ELSE Found("Element", Head(m.elems), None)

----------------------------------------------------------------------------
(* Field locator *)

\* faulty variant: the text is returned as it stands, not stripped
text_or_none_unstripped(f) ==
    IF f.kind = "None" THEN None
    ELSE IF f.e.text # <<>> THEN Str(f.e.text) ELSE None

text_or_none(f) ==
    IF f.kind = "None" THEN None
    ELSE LET t == strip(f.e.text) IN IF t # <<>> THEN Str(t) ELSE None

RECURSIVE find_first_text(_, _, _)
find_first_text(r, paths, nsmap) ==
    IF paths = <<>> THEN None
    ELSE LET e == find(r, Head(paths), nsmap)
         IN  IF e.kind = "SyntaxError" THEN e.err
             ELSE LET t == text_or_none(e)
                  IN  IF t # None THEN t ELSE find_first_text(r, Tail(paths), nsmap)

RECURSIVE TextsOf(_)
TextsOf(es) ==
    IF es = <<>> THEN <<>>
    ELSE LET t == text_or_none(Found("Element", Head(es), None))
         IN  (IF t # None THEN <<t>> ELSE <<>>) \o TextsOf(Tail(es))

find_all_text(r, path, nsmap) ==
    LET m == findall(r, path, nsmap)
    IN  IF Raised(m.err) THEN m.err ELSE List(TextsOf(m.elems))

----------------------------------------------------------------------------
(* Generic XML -> dict (fallback) *)

\* tag.split("}", 1)[-1] if "}" in tag else tag
strip_ns(tag) ==
    IF \E i \in 1..Len(tag) : tag[i] = "}"
    THEN LET i == CHOOSE j \in 1..Len(tag) :
                      tag[j] = "}" /\ \A h \in 1..(j - 1) : tag[h] # "}"
         IN  SubSeq(tag, i + 1, Len(tag))
    ELSE tag

RECURSIVE xml_to_dict(_)
RECURSIVE GroupChildren(_, _)

\* faulty variant: a repeated child tag replaces the earlier children of that tag
GroupChildren_overwrite(children, grouped) ==
    IF children = <<>> THEN grouped
    ELSE LET c == Head(children)
         IN  GroupChildren(Tail(children),
                           DictSet(grouped, strip_ns(c.tag), List(<<xml_to_dict(c)>>)))

\* the loop of lines 98-100: grouped.setdefault(k, []).append(xml_to_dict(c))
GroupChildren(children, grouped) ==
    IF children = <<>> THEN grouped
    ELSE LET c == Head(children)
             k == strip_ns(c.tag)
             prev == IF HasKey(grouped, k) THEN Elems(Get(grouped, k)) ELSE <<>>
         IN  GroupChildren(Tail(children),
                           DictSet(grouped, k, List(Append(prev, xml_to_dict(c)))))

RECURSIVE Ungroup(_, _)

\* faulty variant: only the first child of a repeated tag is kept
Ungroup_first(grouped, node) ==
    IF grouped = <<>> THEN node
    ELSE Ungroup(Tail(grouped), DictSet(node, Head(grouped).k, Head(grouped).v.items[1].v))

\* the loop of lines 101-102: node[k] = v[0] if len(v) == 1 else v
Ungroup(grouped, node) ==
    IF grouped = <<>> THEN node
    ELSE LET g == Head(grouped)
         IN  Ungroup(Tail(grouped),
                     DictSet(node, g.k,
                             IF Len(g.v.items) = 1 THEN g.v.items[1].v ELSE g.v))

\* faulty variant: text beside attributes collapses to the plain string
xml_to_dict_collapsing(e) ==
    LET node1 == IF e.children # <<>> THEN Ungroup(GroupChildren(e.children, <<>>), <<>>)
                 ELSE <<>>
        text == strip(e.text)
        node2 == IF text # <<>> /\ node1 # <<>>
                 THEN DictSet(node1, <<"#text">>, Str(text)) ELSE node1
        node3 == IF e.attrib # <<>> THEN DictSet(node2, <<"@attrs">>, Dict(e.attrib)) ELSE node2
    IN  IF text # <<>> /\ node1 = <<>>
        THEN Dict(<<[k |-> strip_ns(e.tag), v |-> Str(text)]>>)
        ELSE Dict(<<[k |-> strip_ns(e.tag),
                     v |-> IF node3 # <<>> THEN Dict(node3) ELSE Dict(<<>>)]>>)

xml_to_dict(e) ==
    LET attrs == e.attrib
        children == e.children
        node1 == IF children # <<>> THEN Ungroup(GroupChildren(children, <<>>), <<>>)
                 ELSE <<>>
        text == strip(e.text)
        node2 == IF text # <<>> /\ (node1 # <<>> \/ attrs # <<>>)
                 THEN DictSet(node1, <<"#text">>, Str(text)) ELSE node1
        node3 == IF attrs # <<>> THEN DictSet(node2, <<"@attrs">>, Dict(attrs)) ELSE node2
    IN  IF text # <<>> /\ ~(node1 # <<>> \/ attrs # <<>>)
        THEN Dict(<<[k |-> strip_ns(e.tag), v |-> Str(text)]>>)
        ELSE Dict(<<[k |-> strip_ns(e.tag),
                     v |-> IF node3 # <<>> THEN Dict(node3)
                           ELSE IF text # <<>> THEN Str(text) ELSE Dict(<<>>)]>>)

----------------------------------------------------------------------------
(* Simple "common invoice fields" mapper *)

\* path strings: "." followed by "//local" or "//prefix:local" steps
U(local) == <<"//", local>>
Q(prefix, local) == <<"//", prefix, ":", local>>
Path(steps) == <<".">> \o steps

InvoiceIdPaths == << Path(Q("cbc", "ID")), Path(U("ID")) >>
IssueDatePaths ==
    << Path(Q("cbc", "IssueDate")), Path(U("IssueDate")), Path(Q("cbc", "IssueDateTime")) >>
DueDatePaths == << Path(Q("cbc", "DueDate")), Path(U("DueDate")) >>
SupplierNamePaths ==
    << Path(Q("cac", "AccountingSupplierParty") \o Q("cac", "Party")
            \o Q("cac", "PartyName") \o Q("cbc", "Name")),
       Path(Q("cac", "SellerSupplierParty") \o Q("cac", "Party")
            \o Q("cac", "PartyName") \o Q("cbc", "Name")),
       Path(U("SellerTradeParty") \o U("Name")),
       Path(Q("cac", "AccountingSupplierParty") \o Q("cbc", "Name")) >>
CustomerNamePaths ==
    << Path(Q("cac", "AccountingCustomerParty") \o Q("cac", "Party")
            \o Q("cac", "PartyName") \o Q("cbc", "Name")),
       Path(U("BuyerTradeParty") \o U("Name")),
       Path(Q("cac", "AccountingCustomerParty") \o Q("cbc", "Name")) >>
CurrencyPaths ==
    << Path(Q("cbc", "DocumentCurrencyCode")), Path(U("DocumentCurrencyCode")),
       Path(Q("cbc", "TaxCurrencyCode")) >>
PayableAmountPaths ==
    << Path(Q("cbc", "PayableAmount")), Path(U("PayableAmount")),
       Path(Q("cbc", "TaxInclusiveAmount")) >>

\* a or b on the results of Element.find: an Element is true when it has
\* children (Element.__bool__), None is false; b is not evaluated when a
\* raised or is true
ElementOr(a, b) ==
    IF a.kind = "SyntaxError" \/ (a.kind = "Element" /\ a.e.children # <<>>) THEN a ELSE b

\* elem.attrib.get(key)
AttribGet(e, key) == IF HasKey(e.attrib, key) THEN Get(e.attrib, key) ELSE None

\* line 198
pay_elem(r, nsmap) ==
    ElementOr(find(r, Path(Q("cbc", "PayableAmount")), nsmap),
              find(r, Path(U("PayableAmount")), nsmap))

\* lines 196-200
payable_amount_currency(r, nsmap) ==
    LET pe == pay_elem(r, nsmap)
    IN  IF pe.kind = "SyntaxError" THEN pe.err
        ELSE IF pe.kind = "Element"
        THEN Or(AttribGet(pe.e, <<"currencyID">>), AttribGet(pe.e, <<"currencyId">>))
        ELSE None

\* line 203
line_ids(r, nsmap) ==
    Or(find_all_text(r, Path(Q("cac", "InvoiceLine") \o Q("cbc", "ID")), nsmap),
       find_all_text(r, Path(U("InvoiceLine") \o U("ID")), nsmap))
\* line 204
line_descs(r, nsmap) ==
    find_all_text(r, Path(Q("cac", "InvoiceLine") \o Q("cac", "Item")
                          \o Q("cbc", "Description")), nsmap)
\* line 205
line_qtys(r, nsmap) ==
    find_all_text(r, Path(Q("cac", "InvoiceLine") \o Q("cbc", "InvoicedQuantity")), nsmap)

Max(a, b) == IF a >= b THEN a ELSE b

\* faulty variant: the shortest list decides
max_len_shortest(ids, descs, qtys) ==
    LET a == Len(ids.items)
        b == Len(descs.items)
        c == Len(qtys.items)
    IN  IF a <= b /\ a <= c THEN a ELSE IF b <= c THEN b ELSE c

\* line 208
max_len(ids, descs, qtys) ==
    Max(Max(Len(ids.items), Len(descs.items)), Max(Len(qtys.items), 0))

At(l, i) == IF i <= Len(l.items) THEN l.items[i].v ELSE None

\* lines 207-216
lines(ids, descs, qtys) ==
    List([i \in 1..max_len(ids, descs, qtys) |->
            Dict(<< [k |-> <<"lineId">>, v |-> At(ids, i)],
                    [k |-> <<"description">>, v |-> At(descs, i)],
                    [k |-> <<"quantity">>, v |-> At(qtys, i)] >>)])

MappingNote ==
    <<"Best-effort common-field mapping; for full fidelity use xmlAsJsonFallback.">>

RECURSIVE FirstRaised(_)
FirstRaised(vs) ==
    IF vs = <<>> THEN None
    ELSE IF Raised(Head(vs)) THEN Head(vs) ELSE FirstRaised(Tail(vs))

map_invoice_common(r, nsmap) ==
    LET invoice_id == find_first_text(r, InvoiceIdPaths, nsmap)
        issue_date == find_first_text(r, IssueDatePaths, nsmap)
        due_date == find_first_text(r, DueDatePaths, nsmap)
        supplier_name == find_first_text(r, SupplierNamePaths, nsmap)
        customer_name == find_first_text(r, CustomerNamePaths, nsmap)
        currency == find_first_text(r, CurrencyPaths, nsmap)
        payable_amount == find_first_text(r, PayableAmountPaths, nsmap)
        pac == payable_amount_currency(r, nsmap)
        ids == line_ids(r, nsmap)
        descs == line_descs(r, nsmap)
        qtys == line_qtys(r, nsmap)
        \* the statements run in this order; the first that raises ends the call
        raised == FirstRaised(<<invoice_id, issue_date, due_date, supplier_name,
                                customer_name, currency, payable_amount, pac,
                                ids, descs, qtys>>)
    IN  IF Raised(raised) THEN raised
        ELSE Dict(<<
            [k |-> <<"documentType">>, v |-> Str(<<"invoice">>)],
            [k |-> <<"invoiceNumber">>, v |-> invoice_id],
            [k |-> <<"issueDate">>, v |-> issue_date],
            [k |-> <<"dueDate">>, v |-> due_date],
            [k |-> <<"currency">>, v |-> currency],
            [k |-> <<"supplier">>, v |-> Dict(<<[k |-> <<"name">>, v |-> supplier_name]>>)],
            [k |-> <<"customer">>, v |-> Dict(<<[k |-> <<"name">>, v |-> customer_name]>>)],
            [k |-> <<"totals">>, v |-> Dict(<<
                [k |-> <<"payableAmount">>, v |-> payable_amount],
                [k |-> <<"payableAmountCurrency">>, v |-> Or(pac, currency)] >>)],
            [k |-> <<"lines">>, v |-> lines(ids, descs, qtys)],
            [k |-> <<"meta">>, v |-> Dict(<<
                [k |-> <<"rootTag">>, v |-> Str(strip_ns(r.tag))],
                [k |-> <<"namespacesDetected">>,
                 v |-> List([i \in 1..Len(nsmap) |-> Str(nsmap[i].k)])],
                [k |-> <<"mappingNote">>, v |-> Str(MappingNote)] >>)] >>)

----------------------------------------------------------------------------
(* Namespaces: the two regular expressions of extract_namespaces.          *)
(*   \sxmlns:([A-Za-z0-9_]+)="([^"]+)"      re.findall, then dict()        *)
(*   \sxmlns="([^"]+)"                      re.search                      *)

Punctuation == {" ", "\n", "\t", ":", "=", "\"", "'", "-", "<", ">", "/", "{", "}", "."}
IsWord(c) == c \notin Punctuation       \* a run of [A-Za-z0-9_]
IsQuote(c) == c = "\""

\* end of the longest run of word lexemes starting at i (i - 1 when there is none)
WordRunEnd(t, i) ==
    CHOOSE j \in (i - 1)..Len(t) :
        /\ \A h \in i..j : IsWord(t[h])
        /\ (j = Len(t) \/ ~IsWord(t[j + 1]))

\* end of the longest run of lexemes other than a double quote starting at i
NonQuoteRunEnd(t, i) ==
    CHOOSE j \in (i - 1)..Len(t) :
        /\ \A h \in i..j : ~IsQuote(t[h])
        /\ (j = Len(t) \/ IsQuote(t[j + 1]))

NoMatch == [end |-> 0, prefix |-> <<>>, uri |-> <<>>]

\* \sxmlns:([A-Za-z0-9_]+)="([^"]+)" matched at position i
MatchPrefixed(t, i) ==
    IF i + 3 <= Len(t) /\ IsSpace(t[i]) /\ t[i + 1] = "xmlns" /\ t[i + 2] = ":"
    THEN LET j == WordRunEnd(t, i + 3)
         IN  IF j >= i + 3 /\ j + 3 <= Len(t) /\ t[j + 1] = "=" /\ IsQuote(t[j + 2])
             THEN LET k == NonQuoteRunEnd(t, j + 3)
                  IN  IF k >= j + 3 /\ k + 1 <= Len(t)
                      THEN [end |-> k + 1, prefix |-> SubSeq(t, i + 3, j),
                            uri |-> SubSeq(t, j + 3, k)]
                      ELSE NoMatch
             ELSE NoMatch
    ELSE NoMatch

\* \sxmlns="([^"]+)" matched at position i
MatchDefault(t, i) ==
    IF i + 4 <= Len(t) /\ IsSpace(t[i]) /\ t[i + 1] = "xmlns" /\ t[i + 2] = "="
       /\ IsQuote(t[i + 3])
    THEN LET k == NonQuoteRunEnd(t, i + 4)
         IN  IF k >= i + 4 /\ k + 1 <= Len(t)
             THEN [end |-> k + 1, prefix |-> <<>>, uri |-> SubSeq(t, i + 4, k)]
             ELSE NoMatch
    ELSE NoMatch

\* dict(re.findall(...)): the matches left to right, not overlapping, each
\* stored under its prefix
RECURSIVE FindAllPrefixed(_, _, _)
FindAllPrefixed(t, i, acc) ==
    IF i > Len(t) THEN acc
    ELSE LET m == MatchPrefixed(t, i)
         IN  IF m.end # 0
             THEN FindAllPrefixed(t, m.end + 1, DictSet(acc, m.prefix, Str(m.uri)))
             ELSE FindAllPrefixed(t, i + 1, acc)

\* re.search(...): the leftmost match
SearchDefault(t) ==
    IF \E i \in 1..Len(t) : MatchDefault(t, i).end # 0
    THEN MatchDefault(t, CHOOSE i \in 1..Len(t) :
                             /\ MatchDefault(t, i).end # 0
                             /\ \A h \in 1..(i - 1) : MatchDefault(t, h).end = 0)
    ELSE NoMatch

extract_namespaces(xml_bytes) ==
    LET text == xml_bytes
        found == FindAllPrefixed(text, 1, <<>>)
        m == SearchDefault(text)
    IN  IF m.end # 0 THEN DictSet(found, <<"default">>, Str(m.uri)) ELSE found

----------------------------------------------------------------------------
(* Uploaded files.  A file is the text of its root start tag (the part of  *)
(* the bytes that holds the namespace declarations), how the two parsers   *)
(* of lines 258-260 end on it, and the tree they return.  The tree uses    *)
(* only namespaces the start tag declares.                                 *)

cbcUri == <<"urn", ":", "cbc">>
cacUri == <<"urn", ":", "cac">>
invUri == <<"urn", ":", "inv">>

PrefixDecl(prefix, quote, uri) == <<" ", "xmlns", ":", prefix, "=", quote>> \o uri \o <<quote>>
DefaultDecl(quote, uri) == <<" ", "xmlns", "=", quote>> \o uri \o <<quote>>
StartTag(decls) == <<"<", "Invoice">> \o decls \o <<">">>

\* start tags: text, namespace of unprefixed elements, whether the UBL
\* namespaces are bound to some prefix
Headers ==
    { [xml |-> StartTag(<<>>), default |-> <<>>, ubl |-> FALSE],
      [xml |-> StartTag(PrefixDecl("cbc", "\"", cbcUri) \o PrefixDecl("cac", "\"", cacUri)),
       default |-> <<>>, ubl |-> TRUE],
      [xml |-> StartTag(PrefixDecl("cbc", "'", cbcUri) \o PrefixDecl("cac", "'", cacUri)),
       default |-> <<>>, ubl |-> TRUE],
      [xml |-> StartTag(PrefixDecl("cbc", "\"", cbcUri) \o PrefixDecl("ac", "\"", cacUri)),
       default |-> <<>>, ubl |-> TRUE],
      [xml |-> StartTag(DefaultDecl("\"", invUri) \o PrefixDecl("cbc", "\"", cbcUri)
                        \o PrefixDecl("cac", "\"", cacUri)),
       default |-> invUri, ubl |-> TRUE] }

Leaf(tag, attrib, text) == Element(tag, attrib, text, <<>>)
cbc(local) == QName(cbcUri, local)
cac(local) == QName(cacUri, local)

InvoiceLine(id, desc, qty) ==
    Element(cac("InvoiceLine"), <<>>, <<"\n">>,
            <<Leaf(cbc("ID"), <<>>, <<id>>)>>
            \o (IF qty = "" THEN <<>>
                ELSE <<Leaf(cbc("InvoicedQuantity"), <<Attr("unitCode", "C62")>>, <<qty>>)>>)
            \o <<Element(cac("Item"), <<>>, <<>>, <<Leaf(cbc("Description"), <<>>, desc)>>)>>)

\* children of the root that need the UBL namespaces
UblParts ==
    { Leaf(cbc("ID"), <<>>, <<" ", "INV-1", "\n">>),
      Leaf(cbc("DocumentCurrencyCode"), <<>>, <<"CHF">>),
      Leaf(cbc("PayableAmount"), <<Attr("currencyID", "EUR")>>, <<"100">>),
      Element(cbc("PayableAmount"), <<Attr("currencyID", "GBP")>>, <<"9">>,
              <<Leaf(cbc("Note"), <<>>, <<>>)>>),
      Leaf(cbc("PayableAmount"), <<>>, <<"5">>),
      Leaf(cbc("TaxInclusiveAmount"), <<Attr("currencyID", "JPY")>>, <<"8">>),
      InvoiceLine("1", <<"A">>, "2"),
      InvoiceLine("2", <<" ">>, "3"),
      InvoiceLine("3", <<"C">>, "") }

\* children of the root without a prefix: in the default namespace d
PlainParts(d) ==
    { Leaf(QName(d, "ID"), <<>>, <<"INV-2">>),
      Leaf(QName(d, "PayableAmount"),
           <<[k |-> <<"currencyID">>, v |-> Str(<<>>)], Attr("currencyId", "USD")>>, <<"7">>),
      Element(QName(d, "InvoiceLine"), <<>>, <<>>, <<Leaf(QName(d, "ID"), <<>>, <<"9">>)>>) }

PartsFor(h) == PlainParts(h.default) \cup (IF h.ubl THEN UblParts ELSE {})

SeqsUpTo(S, n) == UNION { [1..m -> S] : m \in 0..n }

File(h, parse, children) ==
    [xml_bytes |-> h.xml, parse |-> parse,
     tree |-> IF parse = "malformed" THEN NoElement
              ELSE Element(QName(h.default, "Invoice"), <<>>, <<"\n">>, children)]

\* how the two parsers of lines 258-260 end on a file: with a tree, with a
\* ParseError (an unclosed tag), or with defusedxml refusing a declared entity
Parses == {"ok", "malformed", "forbidden"}

NoFile == [xml_bytes |-> <<>>, parse |-> "none", tree |-> NoElement]

----------------------------------------------------------------------------
(* The script, lines 242-308 *)

Unset == V("unset", <<>>, <<>>)
NoArgs == [root |-> NoElement, paths |-> <<>>, ns |-> <<>>, elem |-> NoElement,
           other |-> NoElement, xml_bytes |-> <<>>]

Init ==
    /\ pc = "start"
    /\ uploaded = NoFile
    /\ root = NoElement
    /\ ns = Unset
    /\ mapped_common = Unset
    /\ shown = <<>>
    /\ args = NoArgs
    /\ ret = Unset

\* lines 245-252: nothing uploaded
NoUpload ==
    /\ pc = "start"
    /\ shown' = Append(shown, "info")
    /\ pc' = "stopped"
    /\ UNCHANGED <<uploaded, root, ns, mapped_common, args, ret>>

\* lines 245-254: a file is uploaded and read
Upload ==
    /\ pc = "start"
    /\ \E h \in Headers, parse \in Parses, m \in 0..MaxChildren :
           \E cs \in [1..m -> PartsFor(h)] :
               /\ parse # "ok" => m = 1
               /\ uploaded' = File(h, parse, cs)
    /\ pc' = "read"
    /\ UNCHANGED <<root, ns, mapped_common, shown, args, ret>>

\* faulty variant: the parse error is swallowed and the script goes on
Parse_unguarded ==
    /\ pc = "read"
    /\ root' = uploaded.tree
    /\ pc' = "parsed"
    /\ UNCHANGED <<uploaded, ns, mapped_common, shown, args, ret>>

\* lines 257-263
Parse ==
    /\ pc = "read"
    /\ IF uploaded.parse = "ok"
       THEN /\ root' = uploaded.tree
            /\ pc' = "parsed"
            /\ UNCHANGED shown
       ELSE /\ shown' = Append(shown, "error")
            /\ pc' = "stopped"
            /\ UNCHANGED root
    /\ UNCHANGED <<uploaded, ns, mapped_common, args, ret>>

\* line 265
ExtractNamespaces ==
    /\ pc = "parsed"
    /\ ns' = Dict(extract_namespaces(uploaded.xml_bytes))
    /\ pc' = "extracted"
    /\ UNCHANGED <<uploaded, root, mapped_common, shown, args, ret>>

\* line 272; an exception is not caught: the script ends with the traceback
MapInvoiceCommon ==
    /\ pc = "extracted"
    /\ mapped_common' = map_invoice_common(root, ns.items)
    /\ pc' = IF Raised(mapped_common') THEN "crashed" ELSE "mapped"
    /\ shown' = IF Raised(mapped_common') THEN Append(shown, "exception") ELSE shown
    /\ UNCHANGED <<uploaded, root, ns, args, ret>>

\* lines 275-276
Project ==
    /\ pc = "mapped"
    /\ mapped_common' =
           Dict(DictSet(mapped_common.items, <<"xmlAsJsonFallback">>, xml_to_dict(root)))
    /\ pc' = "projected"
    /\ UNCHANGED <<uploaded, root, ns, shown, args, ret>>

\* lines 278-308
Render ==
    /\ pc = "projected"
    /\ shown' = shown \o <<"pretty_xml", "json.dumps", "tabs", "expander", "caption">>
    /\ pc' = "done"
    /\ UNCHANGED <<uploaded, root, ns, mapped_common, args, ret>>

Next ==
    \/ NoUpload
    \/ Upload
    \/ Parse
    \/ ExtractNamespaces
    \/ MapInvoiceCommon
    \/ Project
    \/ Render

Spec == Init /\ [][Next]_vars

----------------------------------------------------------------------------
(* Claims about the script and the mapper, checked under Spec *)

Mapped == pc \in {"mapped", "projected", "done"}
MapReturned == pc \in {"mapped", "crashed", "projected", "done"}

Field(d, k) == Get(d.items, <<k>>)
HasField(d, k) == HasKey(d.items, <<k>>)

ScalarOrNull(v) == v.kind \in {"None", "str"}

\* the shape of a complete MappedInvoice
Complete(m) ==
    /\ m.kind = "dict"
    /\ \A k \in {"documentType", "invoiceNumber", "issueDate", "dueDate", "currency",
                 "supplier", "customer", "totals", "lines", "meta"} : HasField(m, k)
    /\ \A k \in {"invoiceNumber", "issueDate", "dueDate", "currency"} :
           ScalarOrNull(Field(m, k))
    /\ HasField(Field(m, "supplier"), "name") /\ ScalarOrNull(Field(Field(m, "supplier"), "name"))
    /\ HasField(Field(m, "customer"), "name") /\ ScalarOrNull(Field(Field(m, "customer"), "name"))
    /\ HasField(Field(m, "totals"), "payableAmount")
    /\ HasField(Field(m, "totals"), "payableAmountCurrency")
    /\ Field(m, "lines").kind = "list"

\* C1: for every parseable document and the namespace map extracted from it
\* (also an empty map, or one without cbc or cac), map_invoice_common returns
\* normally with a complete MappedInvoice: all keys present, scalars null or
\* str, lines a list.
C1_AlwaysComplete == MapReturned => Complete(mapped_common)

\* the matched PayableAmount element of claim C3: the match of the namespaced
\* candidate or, when that matches nothing, of the unqualified candidate
MatchedPayable ==
    LET a == find(root, Path(Q("cbc", "PayableAmount")), ns.items)
    IN  IF a.kind = "Element" THEN a ELSE find(root, Path(U("PayableAmount")), ns.items)

AttrOf(e, k) == IF HasKey(e.attrib, <<k>>) THEN Get(e.attrib, <<k>>).s ELSE <<>>

\* C3: payableAmountCurrency is the currencyID (else currencyId) attribute of
\* the matched PayableAmount element whenever it carries one that is not
\* empty, whether or not that element has children and whether or not a
\* document currency is resolved; otherwise it is the currency field.
C3_AttributeWins ==
    Mapped =>
        LET m == MatchedPayable
            id == IF m.kind = "Element" THEN AttrOf(m.e, "currencyID") ELSE <<>>
            alt == IF m.kind = "Element" THEN AttrOf(m.e, "currencyId") ELSE <<>>
            got == Field(Field(mapped_common, "totals"), "payableAmountCurrency")
        IN  got = IF id # <<>> THEN Str(id)
                  ELSE IF alt # <<>> THEN Str(alt)
                  ELSE Field(mapped_common, "currency")

\* the non-empty trimmed texts of the elements of es, in order
RECURSIVE TrimmedTexts(_)
TrimmedTexts(es) ==
    IF es = <<>> THEN <<>>
    ELSE (IF \E i \in 1..Len(Head(es).text) : ~IsSpace(Head(es).text[i])
          THEN <<Str(strip(Head(es).text))>> ELSE <<>>) \o TrimmedTexts(Tail(es))

ThreeLines ==
    << InvoiceLine("1", <<"A">>, "2"), InvoiceLine("2", <<" ">>, "3"),
       InvoiceLine("3", <<"C">>, "") >>

LineOf(id, desc, qty) ==
    Dict(<< [k |-> <<"lineId">>, v |-> id], [k |-> <<"description">>, v |-> desc],
            [k |-> <<"quantity">>, v |-> qty] >>)

\* C4: lines has the length of the longest of the three lookup results; entry
\* i takes each sub-field from position i of its own list, null beyond that
\* list's end; the description list holds the non-empty trimmed texts of the
\* Description elements in document order, empty ones omitted, so that three
\* lines with an empty second description give the third description at
\* index 1 and null at index 2.
C4_LinesPositional ==
    Mapped =>
        LET ls == Elems(Field(mapped_common, "lines"))
            ids == Elems(line_ids(root, ns.items))
            descs == Elems(line_descs(root, ns.items))
            qtys == Elems(line_qtys(root, ns.items))
            longest == CHOOSE n \in {Len(ids), Len(descs), Len(qtys)} :
                           n >= Len(ids) /\ n >= Len(descs) /\ n >= Len(qtys)
        IN  /\ Len(ls) = longest
            /\ \A i \in 1..Len(ls) :
                   /\ Field(ls[i], "lineId") = IF i <= Len(ids) THEN ids[i] ELSE None
                   /\ Field(ls[i], "description") = IF i <= Len(descs) THEN descs[i] ELSE None
                   /\ Field(ls[i], "quantity") = IF i <= Len(qtys) THEN qtys[i] ELSE None
            /\ descs = TrimmedTexts(WithTag(Descendants(root), cbc("Description")))
            /\ qtys = TrimmedTexts(WithTag(Descendants(root), cbc("InvoicedQuantity")))
            /\ (root.children = ThreeLines /\ HasKey(ns.items, <<"cac">>)) =>
                   ls = << LineOf(Str(<<"1">>), Str(<<"A">>), Str(<<"2">>)),
                           LineOf(Str(<<"2">>), Str(<<"C">>), Str(<<"3">>)),
                           LineOf(Str(<<"3">>), None, None) >>

C4_Witness ==
    /\ pc = "done"
    /\ root.children = ThreeLines
    /\ Field(Elems(Field(mapped_common, "lines"))[2], "description") = Str(<<"C">>)
    /\ Field(Elems(Field(mapped_common, "lines"))[3], "description") = None

\* C5: when the bytes do not parse, exactly one error is shown and the script
\* stops: no tree, no namespace map, no mapping, no projection, nothing
\* rendered; and whatever runs after the parse step runs on a parsed file.
C5_ParseGate ==
    /\ (uploaded.parse \in {"malformed", "forbidden"} /\ pc # "read") =>
           /\ pc = "stopped"
           /\ shown = <<"error">>
           /\ root = NoElement /\ ns = Unset /\ mapped_common = Unset
    /\ (pc \in {"parsed", "extracted", "mapped", "crashed", "projected", "done"}
        \/ ns # Unset \/ mapped_common # Unset) =>
           /\ uploaded.parse = "ok"
           /\ root = uploaded.tree
           /\ "error" \notin {shown[i] : i \in 1..Len(shown)}

C5_Witness ==
    /\ pc = "stopped"
    /\ uploaded.parse = "malformed"
    /\ shown = <<"error">>

----------------------------------------------------------------------------
(* find_first_text called on its own: roots, candidate lists and namespace *)
(* maps drawn from bounded sets.                                           *)

FindParts ==
    { Leaf(cbc("ID"), <<>>, <<" ", "INV-7", "\n">>),
      Leaf(cbc("ID"), <<>>, <<" ", "\n">>),
      Leaf(<<"ID">>, <<>>, <<"INV-1">>),
      Element(<<"Party">>, <<>>, <<"\n">>, <<Leaf(<<"ID">>, <<>>, <<"\t">>)>>) }

FindRoots == { Element(<<"Invoice">>, <<>>, <<>>, cs) : cs \in SeqsUpTo(FindParts, MaxKids) }

FindCandidates == { Path(Q("cbc", "ID")), Path(U("ID")), Path(U("Party") \o U("ID")) }

FindNamespaces == { <<>>, <<[k |-> <<"cbc">>, v |-> Str(cbcUri)]>> }

InitFind ==
    /\ pc = "call"
    /\ args \in { [NoArgs EXCEPT !.root = r, !.paths = p, !.ns = n] :
                      r \in FindRoots, p \in SeqsUpTo(FindCandidates, MaxPaths),
                      n \in FindNamespaces }
    /\ ret = Unset
    /\ uploaded = NoFile /\ root = NoElement /\ ns = Unset
    /\ mapped_common = Unset /\ shown = <<>>

CallFindFirstText ==
    /\ pc = "call"
    /\ ret' = find_first_text(args.root, args.paths, args.ns)
    /\ pc' = "return"
    /\ UNCHANGED <<uploaded, root, ns, mapped_common, shown, args>>

NextFind == CallFindFirstText

SpecFind == InitFind /\ [][NextFind]_vars

\* the candidates of the call whose prefix (if any) is a key of the map
RECURSIVE Resolvable(_, _)
Resolvable(paths, nsmap) ==
    IF paths = <<>> THEN <<>>
    ELSE (IF \A i \in 1..Len(Head(paths)) :
                 Head(paths)[i] = ":" => HasKey(nsmap, <<Head(paths)[i - 1]>>)
          THEN <<Head(paths)>> ELSE <<>>) \o Resolvable(Tail(paths), nsmap)

\* C2: a candidate whose prefix is absent from ns is skipped without raising
\* and without matching; the other candidates are still evaluated in order,
\* so the lookup gives what it gives on the list without the skipped
\* candidates; [".//cbc:ID", ".//ID"] with an empty map on a document whose
\* only ID is <ID>INV-1</ID> gives "INV-1".
C2_AbsentPrefixSkipped ==
    pc = "return" =>
        /\ ~Raised(ret)
        /\ ret = find_first_text(args.root, Resolvable(args.paths, args.ns), args.ns)
        /\ (/\ args.paths = InvoiceIdPaths
            /\ args.ns = <<>>
            /\ args.root.children = <<Leaf(<<"ID">>, <<>>, <<"INV-1">>)>>) =>
               ret = Str(<<"INV-1">>)

\* what candidate i gives on its own: "SyntaxError", "absent" (no match, or a
\* first match whose text is empty or blank) or "text"
Outcome(i) ==
    LET f == find(args.root, args.paths[i], args.ns)
    IN  IF f.kind = "SyntaxError" THEN "SyntaxError"
        ELSE IF f.kind = "None" \/ \A j \in 1..Len(f.e.text) : IsSpace(f.e.text[j])
        THEN "absent" ELSE "text"

----------------------------------------------------------------------------
(* xml_to_dict called on its own, on an element and on a second element    *)
(* that differs from the first in one place.                               *)

otherUri == <<"urn", ":", "u">>

ProjKids ==
    { Leaf(<<"b">>, <<>>, <<>>),
      Leaf(<<"c">>, <<>>, <<" ">>),
      Leaf(QName(otherUri, "b"), <<>>, <<"\n", "t", " ">>),
      Leaf(<<"b">>, <<Attr("x", "1")>>, <<"t">>),
      Element(<<"d">>, <<>>, <<>>, <<Leaf(<<"b">>, <<>>, <<"hi">>), Leaf(<<"c">>, <<>>, <<>>)>>) }

ProjTexts == { <<>>, <<"t">>, <<"\n", "s", " ">> }
ProjAttribs == { <<>>, <<Attr("x", "1")>>, <<Attr("x", "2"), Attr("y", "1")>> }
ProjNames == { "a", "b", "c" }

ProjRoots ==
    { Element(QName(u, "a"), at, tx, cs) :
          u \in {<<>>, otherUri}, at \in {<<>>, <<Attr("x", "1")>>},
          tx \in {<<>>, <<" ", "t", "\n">>}, cs \in SeqsUpTo(ProjKids, MaxKids) }

InitProj ==
    /\ pc = "call"
    /\ args \in { [NoArgs EXCEPT !.elem = e, !.other = e] : e \in ProjRoots }
    /\ ret = Unset
    /\ uploaded = NoFile /\ root = NoElement /\ ns = Unset
    /\ mapped_common = Unset /\ shown = <<>>

\* the element e itself (i = 0) or its i-th child
Targets(e) == 0..Len(e.children)
Target(e, i) == IF i = 0 THEN e ELSE e.children[i]
Replace(e, i, x) == IF i = 0 THEN x ELSE [e EXCEPT !.children[i] = x]

Unedited == pc = "call" /\ args.other = args.elem
Rest == <<uploaded, root, ns, mapped_common, shown, pc, ret>>

\* the second element: two neighbouring children change places
SwapChildren ==
    /\ Unedited
    /\ \E i \in Targets(args.elem) : \E j \in 1..(Len(Target(args.elem, i).children) - 1) :
           LET x == Target(args.elem, i)
               swapped == [x EXCEPT !.children[j] = x.children[j + 1],
                                    !.children[j + 1] = x.children[j]]
           IN  args' = [args EXCEPT !.other = Replace(args.elem, i, swapped)]
    /\ UNCHANGED Rest

\* the second element: an element gets another local name
Rename ==
    /\ Unedited
    /\ \E i \in Targets(args.elem), n \in ProjNames :
           LET x == Target(args.elem, i)
           IN  args' = [args EXCEPT
                           !.other = Replace(args.elem, i, [x EXCEPT !.tag[Len(x.tag)] = n])]
    /\ UNCHANGED Rest

\* the second element: an element gets another text
ChangeText ==
    /\ Unedited
    /\ \E i \in Targets(args.elem), t \in ProjTexts :
           args' = [args EXCEPT
                       !.other = Replace(args.elem, i, [Target(args.elem, i) EXCEPT !.text = t])]
    /\ UNCHANGED Rest

\* the second element: an element gets other attributes
ChangeAttrib ==
    /\ Unedited
    /\ \E i \in Targets(args.elem), a \in ProjAttribs :
           args' = [args EXCEPT
                       !.other = Replace(args.elem, i, [Target(args.elem, i) EXCEPT !.attrib = a])]
    /\ UNCHANGED Rest

CallXmlToDict ==
    /\ pc = "call"
    /\ ret' = List(<<xml_to_dict(args.elem), xml_to_dict(args.other)>>)
    /\ pc' = "return"
    /\ UNCHANGED <<uploaded, root, ns, mapped_common, shown, args>>

NextProj ==
    \/ SwapChildren
    \/ Rename
    \/ ChangeText
    \/ ChangeAttrib
    \/ CallXmlToDict

SpecProj == InitProj /\ [][NextProj]_vars

----------------------------------------------------------------------------
(* Claims about xml_to_dict, checked under SpecProj *)

\* the local name of a tag in Clark notation
Local(tag) == <<tag[Len(tag)]>>

\* the text without the blanks at its ends
Trimmed(t) ==
    IF \A i \in 1..Len(t) : IsSpace(t[i]) THEN <<>>
    ELSE LET a == CHOOSE i \in 1..Len(t) : ~IsSpace(t[i]) /\ \A h \in 1..(i - 1) : IsSpace(t[h])
             b == CHOOSE i \in 1..Len(t) : ~IsSpace(t[i]) /\ \A h \in (i + 1)..Len(t) : IsSpace(t[h])
         IN  SubSeq(t, a, b)

Projected(i) == Elems(ret)[i]

\* the element and its descendants
Subtree(e) == <<e>> \o Descendants(e)

\* what the projection keeps of an element according to claim C6: local
\* names, attributes, trimmed texts, children in document order
RECURSIVE Norm(_)
Norm(e) ==
    Element(Local(e.tag), e.attrib, Trimmed(e.text),
            [i \in 1..Len(e.children) |-> Norm(e.children[i])])

\* C6 as claimed: two elements that differ in a local name, in attributes, in
\* a trimmed text or in the order of some element's children have different
\* projections.
C6_Lossless ==
    pc = "return" => (Norm(args.elem) # Norm(args.other) => Projected(1) # Projected(2))

\* children regrouped by local name: the names in order of first occurrence,
\* the children of one name in document order
SameName(cs, name) == SelectSeq(cs, LAMBDA c : Local(c.tag) = name)

RECURSIVE Regroup(_)
Regroup(cs) ==
    IF cs = <<>> THEN <<>>
    ELSE SameName(cs, Local(Head(cs).tag))
         \o Regroup(SelectSeq(cs, LAMBDA c : Local(c.tag) # Local(Head(cs).tag)))

RECURSIVE Canon(_)
Canon(e) ==
    LET cs == Regroup(e.children)
    IN  Element(Local(e.tag), e.attrib, Trimmed(e.text), [i \in 1..Len(cs) |-> Canon(cs[i])])

\* the element a projection stands for
RECURSIVE Decode(_)
RECURSIVE DecodeChildren(_)
Decode(d) ==
    LET k == d.items[1].k
        v == d.items[1].v
    IN  IF v.kind = "str" THEN Element(k, <<>>, v.s, <<>>)
        ELSE Element(k,
                     IF HasKey(v.items, <<"@attrs">>) THEN Get(v.items, <<"@attrs">>).items ELSE <<>>,
                     IF HasKey(v.items, <<"#text">>) THEN Get(v.items, <<"#text">>).s ELSE <<>>,
                     DecodeChildren(SelectSeq(v.items,
                                              LAMBDA it : it.k \notin {<<"@attrs">>, <<"#text">>})))
DecodeChildren(items) ==
    IF items = <<>> THEN <<>>
    ELSE (IF Head(items).v.kind = "list"
          THEN [i \in 1..Len(Head(items).v.items) |-> Decode(Head(items).v.items[i].v)]
          ELSE <<Decode(Head(items).v)>>) \o DecodeChildren(Tail(items))

\* equality of Python values: lists by position, dicts by key
RECURSIVE SameValue(_, _)
SameValue(a, b) ==
    /\ a.kind = b.kind
    /\ a.s = b.s
    /\ Len(a.items) = Len(b.items)
    /\ IF a.kind = "dict"
       THEN \A i \in 1..Len(a.items) : \E j \in 1..Len(b.items) :
                a.items[i].k = b.items[j].k /\ SameValue(a.items[i].v, b.items[j].v)
       ELSE \A i \in 1..Len(a.items) : SameValue(a.items[i].v, b.items[i].v)

ChildNames(e) == { Local(e.children[i].tag) : i \in 1..Len(e.children) }

\* the two elements agree in local names, attributes, trimmed texts and, for
\* every local name, in the sequence of the children of that name
RECURSIVE Similar(_, _)
Similar(e, f) ==
    /\ Local(e.tag) = Local(f.tag)
    /\ SameValue(Dict(e.attrib), Dict(f.attrib))
    /\ Trimmed(e.text) = Trimmed(f.text)
    /\ \A name \in ChildNames(e) \cup ChildNames(f) :
           LET s == SameName(e.children, name)
               t == SameName(f.children, name)
           IN  Len(s) = Len(t) /\ \A i \in 1..Len(s) : Similar(s[i], t[i])

\* C6 amended: the projection determines the element up to the interleaving
\* of differently named siblings: local names, attributes, trimmed texts and,
\* for every local name, the children of that name in document order can be
\* read back from it, so two elements that differ in any of these have
\* different projections.
C6_LosslessUpToRegrouping ==
    pc = "return" =>
        /\ Decode(Projected(1)) = Canon(args.elem)
        /\ ~Similar(args.elem, args.other) => ~SameValue(Projected(1), Projected(2))

\* two same-named children that differ have changed places
C6_Witness ==
    /\ pc = "return"
    /\ Len(args.elem.children) >= 2
    /\ Local(args.elem.children[1].tag) = Local(args.elem.children[2].tag)
    /\ args.other.children[1] = args.elem.children[2]
    /\ args.other.children[2] = args.elem.children[1]
    /\ ~Similar(args.elem, args.other)
    /\ ~SameValue(Projected(1), Projected(2))

ProjectionOf(i) == IF i = 1 THEN Projected(1) ELSE xml_to_dict(Subtree(args.elem)[i])

\* C7: an element without children projects to {local tag: value} where value
\* is the trimmed text when there is text and no attribute, a dict with
\* "@attrs" and (only with text) "#text" when there are attributes, and the
\* empty dict when there is neither; with children, "#text" is present
\* exactly with text, "@attrs" exactly with attributes, and the value is
\* never a plain string.
C7_LeafAndTextShape ==
    pc = "return" =>
        \A i \in 1..Len(Subtree(args.elem)) :
            LET x == Subtree(args.elem)[i]
                p == ProjectionOf(i)
                v == p.items[1].v
                t == Trimmed(x.text)
                textKey == HasKey(v.items, <<"#text">>)
                attrsKey == HasKey(v.items, <<"@attrs">>)
            IN  /\ p.kind = "dict" /\ Len(p.items) = 1 /\ p.items[1].k = Local(x.tag)
                /\ (x.children = <<>> /\ x.attrib = <<>> /\ t # <<>>) => v = Str(t)
                /\ (x.children = <<>> /\ x.attrib = <<>> /\ t = <<>>) => v = Dict(<<>>)
                /\ (x.children = <<>> /\ x.attrib # <<>>) =>
                       v = Dict((IF t # <<>> THEN <<[k |-> <<"#text">>, v |-> Str(t)]>> ELSE <<>>)
                                \o <<[k |-> <<"@attrs">>, v |-> Dict(x.attrib)]>>)
                /\ (x.children # <<>> \/ x.attrib # <<>>) =>
                       /\ v.kind = "dict"
                       /\ textKey <=> t # <<>>
                       /\ textKey => Get(v.items, <<"#text">>) = Str(t)
                       /\ attrsKey <=> x.attrib # <<>>
                       /\ attrsKey => Get(v.items, <<"@attrs">>) = Dict(x.attrib)

\* a childless element with attributes and text, and a child with children
C7_Witness ==
    /\ pc = "return"
    /\ args.elem.attrib # <<>> /\ Trimmed(args.elem.text) # <<>>
    /\ \E i \in 1..Len(args.elem.children) :
           LET c == args.elem.children[i]
           IN  c.children = <<>> /\ c.attrib # <<>> /\ Trimmed(c.text) # <<>>
    /\ \E i \in 1..Len(args.elem.children) : args.elem.children[i].children # <<>>

\* C9: with children, each distinct local child name is a key whose value is
\* the projection of the child when the name occurs once, and the list of
\* the projections of all children of that name, in document order, one per
\* child, when it occurs more than once, whatever their namespaces; there is
\* no other key than these, "#text" and "@attrs".
C9_ChildrenGrouped ==
    pc = "return" =>
        \A i \in 1..Len(Subtree(args.elem)) :
            LET x == Subtree(args.elem)[i]
                v == ProjectionOf(i).items[1].v
            IN  x.children # <<>> =>
                    /\ \A j \in 1..Len(x.children) :
                           LET name == Local(x.children[j].tag)
                               same == SameName(x.children, name)
                           IN  /\ HasKey(v.items, name)
                               /\ Get(v.items, name) =
                                      IF Len(same) = 1 THEN xml_to_dict(same[1])
                                      ELSE List([h \in 1..Len(same) |-> xml_to_dict(same[h])])
                    /\ \A j \in 1..Len(v.items) :
                           \/ v.items[j].k \in {<<"#text">>, <<"@attrs">>}
                           \/ \E h \in 1..Len(x.children) : Local(x.children[h].tag) = v.items[j].k

\* a name that occurs once beside a name shared by children of two namespaces
C9_Witness ==
    /\ pc = "return"
    /\ \E i, j, h \in 1..Len(args.elem.children) :
           /\ i < j
           /\ args.elem.children[i].tag # args.elem.children[j].tag
           /\ Local(args.elem.children[i].tag) = Local(args.elem.children[j].tag)
           /\ Len(SameName(args.elem.children, Local(args.elem.children[h].tag))) = 1
    /\ Get(Projected(1).items[1].v.items, <<"b">>).kind = "list"

----------------------------------------------------------------------------
(* extract_namespaces called on its own: a start tag made of attribute     *)
(* chunks drawn from a bounded set.                                        *)

NsChunks ==
    { PrefixDecl("cbc", "\"", <<"urn", ":", "x">>),
      PrefixDecl("cbc", "\"", <<"urn", ":", "y">>),
      PrefixDecl("cac", "\"", <<"urn", ":", "x">>),
      PrefixDecl("default", "\"", <<"urn", ":", "p">>),
      PrefixDecl("cbc", "'", <<"urn", ":", "z">>),
      DefaultDecl("\"", <<"urn", ":", "default">>),
      DefaultDecl("\"", <<"urn", ":", "other">>),
      <<" ", "id", "=", "\"", "1", "\"">> }

InitNs ==
    /\ pc = "call"
    /\ args = [NoArgs EXCEPT !.xml_bytes = <<"<", "Invoice", "/", ">">>]
    /\ ret = Unset
    /\ uploaded = NoFile /\ root = NoElement /\ ns = Unset
    /\ mapped_common = Unset /\ shown = <<>>

\* one more attribute in the start tag
AddAttribute ==
    /\ pc = "call"
    /\ \E c \in NsChunks :
           /\ Cardinality({i \in 1..Len(args.xml_bytes) : args.xml_bytes[i] = "="}) < MaxChunks
           /\ args' = [args EXCEPT !.xml_bytes = SubSeq(@, 1, Len(@) - 2) \o c \o <<"/", ">">>]
    /\ UNCHANGED <<uploaded, root, ns, mapped_common, shown, pc, ret>>

CallExtractNamespaces ==
    /\ pc = "call"
    /\ ret' = Dict(extract_namespaces(args.xml_bytes))
    /\ pc' = "return"
    /\ UNCHANGED <<uploaded, root, ns, mapped_common, shown, args>>

NextNs ==
    \/ AddAttribute
    \/ CallExtractNamespaces

SpecNs == InitNs /\ [][NextNs]_vars

\* text[i..] reads: blank, xmlns:PREFIX="URI" with PREFIX = t[i+3..j] and
\* URI = t[j+3..k]
PrefixedAt(t, i, j, k) ==
    /\ IsSpace(t[i]) /\ t[i + 1] = "xmlns" /\ t[i + 2] = ":"
    /\ j >= i + 3 /\ \A h \in (i + 3)..j : IsWord(t[h])
    /\ t[j + 1] = "=" /\ t[j + 2] = "\""
    /\ k >= j + 3 /\ \A h \in (j + 3)..k : t[h] # "\""
    /\ t[k + 1] = "\""

\* text[i..] reads: blank, xmlns="URI" with URI = t[i+4..k]
UnprefixedAt(t, i, k) ==
    /\ IsSpace(t[i]) /\ t[i + 1] = "xmlns" /\ t[i + 2] = "=" /\ t[i + 3] = "\""
    /\ k >= i + 4 /\ \A h \in (i + 4)..k : t[h] # "\""
    /\ t[k + 1] = "\""

\* C10: every prefix declared as xmlns:PREFIX="URI" is bound to the URI of its
\* last declaration; the key "default" is present exactly when the text has
\* an unprefixed xmlns="URI" and is then bound to the URI of the first one;
\* without declarations the map is empty; xmlns:cbc="urn:x" with
\* xmlns="urn:default" gives cbc -> urn:x and default -> urn:default.
C10_PrefixesAndDefault ==
    pc = "return" =>
        LET t == args.xml_bytes
            P == 1..(Len(t) - 1)
            m == ret.items
            prefixed == { d \in P \X P \X P : PrefixedAt(t, d[1], d[2], d[3]) }
            unprefixed == { d \in P \X P : UnprefixedAt(t, d[1], d[2]) }
        IN  /\ \A d \in prefixed :
                   LET prefix == SubSeq(t, d[1] + 3, d[2])
                       last == CHOOSE e \in prefixed :
                                   /\ SubSeq(t, e[1] + 3, e[2]) = prefix
                                   /\ \A f \in prefixed :
                                          SubSeq(t, f[1] + 3, f[2]) = prefix => f[1] <= e[1]
                   IN  /\ HasKey(m, prefix)
                       /\ Get(m, prefix) = Str(SubSeq(t, last[2] + 3, last[3]))
            /\ HasKey(m, <<"default">>) <=> unprefixed # {}
            /\ unprefixed # {} =>
                   LET first == CHOOSE e \in unprefixed : \A f \in unprefixed : e[1] <= f[1]
                   IN  Get(m, <<"default">>) = Str(SubSeq(t, first[1] + 4, first[2]))
            /\ (prefixed = {} /\ unprefixed = {}) => m = <<>>
            /\ t = <<"<", "Invoice">> \o PrefixDecl("cbc", "\"", <<"urn", ":", "x">>)
                   \o DefaultDecl("\"", <<"urn", ":", "default">>) \o <<"/", ">">> =>
                   m = << [k |-> <<"cbc">>, v |-> Str(<<"urn", ":", "x">>)],
                          [k |-> <<"default">>, v |-> Str(<<"urn", ":", "default">>)] >>

====
